---- MODULE Spec2Model ----
(***************************************************************************)
(* VideoSync: the session-coordination layer.                              *)
(*                                                                         *)
(*  - the edge (streaming) node of src/unnamed/part_002, lines 1-711:      *)
(*    WebSocket attach, the reader loop (handleClientMessage), the writer  *)
(*    (writePump), cleanupClient, the pub/sub bridge                       *)
(*    (subscribeToSessionUpdates, handleSessionUpdate, broadcastState);    *)
(*  - the control node of src/unnamed/part_003: createSession and the      *)
(*    streaming-server registry (register, heartbeat, sweep, selection);   *)
(*  - the Redis store they share: three keys per session, each with a      *)
(*    time to live, and one pub/sub channel per session.                   *)
(*                                                                         *)
(* Every goroutine is a process of the model; a step is one access to      *)
(* shared state (a Redis command, a channel operation, a critical          *)
(* section).                                                               *)
(***************************************************************************)
EXTENDS Integers, Sequences, FiniteSets, TLC

\* ------------------------------------------------------------------ bounds

\* Connections ever accepted by the edge nodes (ids are never reused).
MaxConns == 2
\* Capacity of a ClientConnection's send channel, scaled down from 256.
QueueCap == 2
\* stateUpdate frames read from host-flagged connections, over a whole run.
MaxFrames == 2
\* The same, in the runs that follow one update through the fan-out.
FanFrames == 1
\* Client timestamps range over 1..MaxTs.
MaxTs == 2
\* Ticks of the clock in one REDIS_MSG_EXPIRY / sessionExpiry (24 hours).
ExpiryTicks == 2
\* The registry: capacities range over 1..MaxCapacity, loads over 0..MaxLoad,
\* the control node's clock over 0..MaxClock.
MaxCapacity == 2
MaxLoad == 2
\* WebSocket connections ever accepted by the control node.
MaxCtlConns == 2
MaxClock == 6

\* The control node's clock counts units of 20 s: the sweep's ticker period
\* (1 minute) and its threshold (60 s) are both three of them, so that a
\* heartbeat can fall between two sweeps.
SweepEvery == 3
EvictAfter == 3
\* HEARTBEAT_INTERVAL = 30 s, rounded up to whole units of 20 s.
HeartbeatEvery == 2

Conns == 1..MaxConns
Sessions == {"s1", "s2"}
Nodes == {"e1", "e2"}

\* The edge node a connection terminates on: the first two on e1, later ones on e2.
NodeOf(c) == IF c <= 2 THEN "e1" ELSE "e2"

\* ------------------------------------------------------------------ values

\* A key that does not exist (GET answers redis.Nil).
NoDoc == [absent |-> TRUE]
\* The JSON document createSession stores: SessionState has no timestamp field.
InitialDoc == [paused |-> TRUE, upd |-> 0]
\* The JSON document of a client's frame: "state" with its timestamp.  upd is
\* the number of the frame it came in (history, not part of the document).
FrameDoc(ts, k) == [paused |-> FALSE, timestamp |-> ts, upd |-> k]

\* json.Unmarshal(val, &RedisState{}): fails on the empty string GET leaves
\* behind for a missing key; a document without "timestamp" decodes to 0.
DecodeAnything(doc) == TRUE
DecodeOk(doc) == doc # NoDoc
DecodeTimestamp(doc) == IF "timestamp" \in DOMAIN doc THEN doc.timestamp ELSE 0

\* uuid.New().String(): a fresh token per session.
HostTokenFor(s) == "tok-" \o s
\* What a /ws request may carry as hostToken: nothing, or a session's token.
TokensFor(s) == {"", HostTokenFor(s)}

ServerIds == {"ss1", "ss2"}
\* An id that is not in the streamingServers map.
NoServer == [Capacity |-> 0, CurrentLoad |-> 0, Status |-> "", LastPing |-> 0]

NoConn == [sessionID |-> "", isHost |-> FALSE]
NoLocal == [doc |-> NoDoc, k |-> 0]
IdleListener == [pc |-> "none", h |-> 0, msg |-> NoDoc, snap |-> <<>>, i |-> 0, j |-> 0]

\* Before the control node handled any request.
NoResponse == [op |-> "none"]
\* WebSocket connections the control node accepts on its own /ws.
CtlConns == 1..MaxCtlConns
NoCtlConn == [pc |-> "new", sessionKey |-> "", isHost |-> FALSE]

VARIABLES
    \* Redis
    kvSession,      \* session:<id>        "" (absent) or "active"
    kvHost,         \* session:<id>:host   "" (absent) or the token
    kvState,        \* session:<id>:state  NoDoc (absent) or a JSON document
    ttl,            \* ttl[s][key]: ticks left, 0 when the key is absent
    hbuf,           \* hbuf[c]: messages Redis pushed to the PubSub that
                    \* connection c's subscribeToSessionUpdates opened
    \* control node
    issued,         \* session ids createSession generated
    servers,        \* streamingServers: the registry map
    now,            \* time.Now(), in units of 20 s
    nextSweep,      \* when cleanupInactiveServers' ticker fires next
    selected,       \* what the last getLeastLoadedServer returned
    resp,           \* the last request the control node handled, and its response
    urls,           \* urls[s]: the streaming URLs validateSession returned for s
    cws,            \* cws[k]: the control node's handleWebSocket goroutine k
    \* edge nodes
    conn,           \* conn[c]: the ClientConnection (sessionID, isHost)
    rpc,            \* rpc[c]: where c's handleWebSocket goroutine is
    rloc,           \* rloc[c]: its locals (the value GET returned, the frame)
    wpc,            \* wpc[c]: where c's writePump goroutine is
    queue,          \* queue[c]: the send channel's buffer
    closed,         \* closed[c]: close(client.send) has run
    connClosed,     \* connClosed[c]: client.conn.Close() has run
    clients,        \* clients[n][s]: the membership slice
    inMap,          \* inMap[n][s]: the map clients has the key s ("exists", lines
                    \* 405 and 498)
    numClients,     \* numClients[n]
    pubsub,         \* pubsub[n]: the node's single *redis.PubSub (a handle id)
    lst,            \* lst[c]: the listener goroutine c's subscribe started
    crashed,        \* crashed[n]: an unrecovered panic ended the process
    client_lock,    \* client_lock[n][s]: the mutex object in the map (0: no
                    \* entry; otherwise named after the connection that made it)
    locked,         \* locked[m]: the connection whose goroutine holds mutex m, or 0
    appended,       \* appended[c]: the slice append() returned to c's handler,
                    \* not yet stored in the map
    \* history
    frames,         \* the host stateUpdate frames read, in order
    ignored,        \* non-host connections whose stateUpdate was dropped
    delivered,      \* delivered[c][k]: broadcast frames of update k enqueued on c
    dropped,        \* dropped[c]: 1 once a frame was dropped because c's queue was full
    presented,      \* presented[c]: the hostToken parameter of c's /ws request
    lastTs,         \* lastTs[c]: state.timestamp of the last stateUpdate frame put
                    \* on c's send channel (0 before the first)
    createdAt       \* createdAt[s]: time.Now() when createSession ran for s

kvVars == <<kvSession, kvHost, kvState, ttl>>
connVars == <<conn, rpc, rloc, wpc, queue, closed, connClosed>>
nodeVars == <<clients, inMap, numClients, pubsub, crashed, client_lock, locked, appended>>
histVars == <<frames, ignored, delivered, dropped, presented, lastTs, createdAt>>
ctlVars == <<servers, now, nextSweep, selected, resp, urls, cws>>
vars == <<kvSession, kvHost, kvState, ttl, hbuf, issued, servers, now, nextSweep,
          selected, resp, urls, cws, conn, rpc, rloc, wpc, queue, closed, connClosed,
          clients, inMap, numClients,
          pubsub, lst, crashed, client_lock, locked, appended, frames, ignored, delivered,
          dropped, presented, lastTs, createdAt>>

Init ==
    /\ kvSession = [s \in Sessions |-> ""]
    /\ kvHost = [s \in Sessions |-> ""]
    /\ kvState = [s \in Sessions |-> NoDoc]
    /\ ttl = [s \in Sessions |-> [session |-> 0, host |-> 0, state |-> 0]]
    /\ hbuf = [c \in Conns |-> <<>>]
    /\ issued = {}
    /\ conn = [c \in Conns |-> NoConn]
    /\ rpc = [c \in Conns |-> "new"]
    /\ rloc = [c \in Conns |-> NoLocal]
    /\ wpc = [c \in Conns |-> "none"]
    /\ queue = [c \in Conns |-> <<>>]
    /\ closed = [c \in Conns |-> FALSE]
    /\ connClosed = [c \in Conns |-> FALSE]
    /\ clients = [n \in Nodes |-> [s \in Sessions |-> <<>>]]
    /\ inMap = [n \in Nodes |-> [s \in Sessions |-> FALSE]]
    /\ numClients = [n \in Nodes |-> 0]
    /\ pubsub = [n \in Nodes |-> 0]
    /\ lst = [c \in Conns |-> IdleListener]
    /\ crashed = [n \in Nodes |-> FALSE]
    /\ client_lock = [n \in Nodes |-> [s \in Sessions |-> 0]]
    /\ locked = [m \in Conns |-> 0]
    /\ appended = [c \in Conns |-> <<>>]
    /\ frames = <<>>
    /\ ignored = {}
    /\ delivered = [c \in Conns |-> [k \in 1..MaxFrames |-> 0]]
    /\ dropped = [c \in Conns |-> 0]
    /\ presented = [c \in Conns |-> ""]
    /\ lastTs = [c \in Conns |-> 0]
    /\ createdAt = [s \in Sessions |-> 0]
    /\ servers = [id \in ServerIds |-> NoServer]
    /\ now = 0
    /\ nextSweep = SweepEvery
    /\ selected = ""
    /\ resp = NoResponse
    /\ urls = [s \in Sessions |-> {}]
    /\ cws = [k \in CtlConns |-> NoCtlConn]

\* ------------------------------------------------------------ control node

\* createSession: three SETEX in a row; the handler returns at the first
\* that fails.  nok is the number of SETEX that succeed.  The registry is not
\* read, and the 200 response carries sessionKey and hostToken only.
CreateSession(s, nok) ==
    /\ s \notin issued
    /\ issued' = issued \cup {s}
    /\ kvSession' = IF nok >= 1 THEN [kvSession EXCEPT ![s] = "active"] ELSE kvSession
    /\ kvHost' = IF nok >= 2 THEN [kvHost EXCEPT ![s] = HostTokenFor(s)] ELSE kvHost
    /\ kvState' = IF nok >= 3 THEN [kvState EXCEPT ![s] = InitialDoc] ELSE kvState
    /\ ttl' = [ttl EXCEPT ![s] = [session |-> IF nok >= 1 THEN ExpiryTicks ELSE 0,
                                  host |-> IF nok >= 2 THEN ExpiryTicks ELSE 0,
                                  state |-> IF nok >= 3 THEN ExpiryTicks ELSE 0]]
    /\ resp' = IF nok = 3
               THEN [op |-> "create", code |-> 200, sessionKey |-> s,
                     hostToken |-> HostTokenFor(s)]
               ELSE [op |-> "create", code |-> 500]
    /\ createdAt' = [createdAt EXCEPT ![s] = now]
    /\ UNCHANGED <<hbuf, connVars, nodeVars, lst, frames, ignored, delivered, dropped,
                   presented, lastTs, servers, now, nextSweep, selected, urls, cws>>

\* createSession of the control node that keeps a static list of streaming
\* servers (part_002:1472-1507): the state JSON, made at creation with the
\* host token inside, is itself the value of session:<key>; then the token
\* goes under session:<key>:host.  No session:<key>:state is written.  The
\* handler returns at the first SETEX that fails; nok is the number of SETEX
\* that succeed.
CreatedState(s) == "state0-" \o HostTokenFor(s)
CreateSessionInline(s, nok) ==
    /\ s \notin issued
    /\ issued' = issued \cup {s}
    /\ kvSession' = IF nok >= 1 THEN [kvSession EXCEPT ![s] = CreatedState(s)] ELSE kvSession
    /\ kvHost' = IF nok >= 2 THEN [kvHost EXCEPT ![s] = HostTokenFor(s)] ELSE kvHost
    /\ ttl' = [ttl EXCEPT ![s] = [session |-> IF nok >= 1 THEN ExpiryTicks ELSE 0,
                                  host |-> IF nok >= 2 THEN ExpiryTicks ELSE 0,
                                  state |-> 0]]
    /\ resp' = IF nok = 2
               THEN [op |-> "create", code |-> 201, sessionKey |-> s,
                     hostToken |-> HostTokenFor(s)]
               ELSE [op |-> "create", code |-> 500]
    /\ createdAt' = [createdAt EXCEPT ![s] = now]
    /\ UNCHANGED <<kvState, hbuf, connVars, nodeVars, lst, frames, ignored, delivered,
                   dropped, presented, lastTs, servers, now, nextSweep, selected, urls,
                   cws>>

\* getSession of the same control node (part_002:1523-1535): GET
\* session:<key>; any error, a missing key included, answers 404, otherwise
\* the stored bytes are the body.
GetSession(s, ok) ==
    /\ resp' = IF ok /\ kvSession[s] # ""
               THEN [op |-> "get", id |-> s, code |-> 200, body |-> kvSession[s]]
               ELSE [op |-> "get", id |-> s, code |-> 404]
    /\ UNCHANGED <<kvVars, hbuf, issued, servers, now, nextSweep, selected, urls, cws,
                   connVars, nodeVars, lst, histVars>>

\* One tick of the clock: every key's time to live runs down; Redis deletes
\* a key whose time to live reaches 0.
Expire(t) == IF t > 0 THEN t - 1 ELSE 0
Tick ==
    /\ \E s \in Sessions : ttl[s].session > 0 \/ ttl[s].host > 0 \/ ttl[s].state > 0
    /\ ttl' = [s \in Sessions |-> [session |-> Expire(ttl[s].session),
                                   host |-> Expire(ttl[s].host),
                                   state |-> Expire(ttl[s].state)]]
    /\ kvSession' = [s \in Sessions |-> IF ttl'[s].session = 0 THEN "" ELSE kvSession[s]]
    /\ kvHost' = [s \in Sessions |-> IF ttl'[s].host = 0 THEN "" ELSE kvHost[s]]
    /\ kvState' = [s \in Sessions |-> IF ttl'[s].state = 0 THEN NoDoc ELSE kvState[s]]
    /\ UNCHANGED <<hbuf, issued, connVars, nodeVars, lst, histVars, ctlVars>>

\* ------------------------------------------- control node: the registry

\* registerStreamingServer, lines 482-498: the decoded descriptor replaces the
\* map entry, with LastPing set to the handling time.
RegisterStreamingServer(id, cap, load, status) ==
    /\ servers' = [servers EXCEPT ![id] = [Capacity |-> cap, CurrentLoad |-> load,
                                           Status |-> status, LastPing |-> now]]
    /\ resp' = [op |-> "register", id |-> id, code |-> 200]
    /\ UNCHANGED <<kvVars, hbuf, issued, now, nextSweep, selected, urls, cws, connVars,
                   nodeVars, lst, histVars>>

\* handleHeartbeat, lines 500-516: an entry that exists gets the reported
\* load, the handling time and status active; an unknown id changes nothing.
HandleHeartbeat(id, load) ==
    /\ servers' = IF servers[id] # NoServer
                  THEN [servers EXCEPT ![id].CurrentLoad = load,
                                       ![id].LastPing = now,
                                       ![id].Status = "active"]
                  ELSE servers
    /\ resp' = [op |-> "heartbeat", id |-> id, load |-> load, code |-> 200]
    /\ UNCHANGED <<kvVars, hbuf, issued, now, nextSweep, selected, urls, cws, connVars,
                   nodeVars, lst, histVars>>

\* A test that also takes the entries exactly at the threshold.
InactiveAtLimit(t, lastPing) == t - lastPing >= EvictAfter
\* now-server.LastPing > 60 (line 545).
Inactive(t, lastPing) == t - lastPing > EvictAfter

\* cleanupInactiveServers, lines 539-552: on every tick of its ticker, delete
\* the entries with now - LastPing > 60.
CleanupInactiveServers ==
    /\ now >= nextSweep
    /\ nextSweep' = nextSweep + SweepEvery
    /\ servers' = [id \in ServerIds |->
                     IF servers[id] # NoServer /\ Inactive(now, servers[id].LastPing)
                     THEN NoServer ELSE servers[id]]
    /\ UNCHANGED <<kvVars, hbuf, issued, now, selected, resp, urls, cws, connVars,
                   nodeVars, lst, histVars>>

\* Time passes on the control node; a due sweep runs first.
ClockTick ==
    /\ now < MaxClock
    /\ now < nextSweep
    /\ now' = now + 1
    /\ UNCHANGED <<kvVars, hbuf, issued, servers, nextSweep, selected, resp, urls, cws,
                   connVars, nodeVars, lst, histVars>>

\* float64(load) / float64(capacity) as the fraction <<load, capacity>>;
\* capacities are positive.  a < b on two such quotients.
LoadOf(srv) == <<srv.CurrentLoad, srv.Capacity>>
LoadLessOrEqual(a, b) == a[1] * b[2] <= b[1] * a[2]
LoadLess(a, b) == a[1] * b[2] < b[1] * a[2]
\* lowestLoad := float64(1.0) (line 523).
InitialLowest == <<1, 1>>

\* The orders in which range may walk the map.
Orders(reg) ==
    LET ids == {id \in ServerIds : reg[id] # NoServer}
    IN {o \in [1..Cardinality(ids) -> ids] : \A i, j \in DOMAIN o : i # j => o[i] # o[j]}

\* The loop of getLeastLoadedServer, lines 525-534, from the i-th entry on.
RECURSIVE SelectFrom(_, _, _, _, _)
SelectFrom(reg, order, i, best, lowest) ==
    IF i > Len(order) THEN best
    ELSE LET srv == reg[order[i]]
         IN IF srv.Status # "active"
            THEN SelectFrom(reg, order, i + 1, best, lowest)
            ELSE IF LoadLess(LoadOf(srv), lowest)
                 THEN SelectFrom(reg, order, i + 1, order[i], LoadOf(srv))
                 ELSE SelectFrom(reg, order, i + 1, best, lowest)

\* getLeastLoadedServer, lines 518-537; "" is the nil pointer.
GetLeastLoadedServer(reg, order) == SelectFrom(reg, order, 1, "", InitialLowest)

\* A call of getLeastLoadedServer (validateSession, line 253).
SelectServer(order) ==
    /\ selected' = GetLeastLoadedServer(servers, order)
    /\ UNCHANGED <<kvVars, hbuf, issued, servers, now, nextSweep, resp, urls, cws,
                   connVars, nodeVars, lst, histVars>>

\* server.URL of a registered node: the edge node registers its serverURL,
\* which main builds as "http://localhost:<port>" (part_002, lines 119-121), so
\* the prefix and suffix corrections of lines 260-264 leave it as it is.
ServerURL(id) == "http://" \o id

\* What a validate request may carry as hostToken: nothing, the session's
\* token, or another string.
ValidateTokens(s) == {"", HostTokenFor(s), "connected"}

\* validateSession, lines 211-273: EXISTS session:<id>; if a token came, GET
\* session:<id>:host and compare; then getLeastLoadedServer, whose result is
\* the streaming_url of the answer.  Nothing is stored: the node is selected
\* anew by every call.
ValidateSession(s, token, order, okExists, okGet) ==
    LET exists == kvSession[s] # ""
        stored == IF okGet THEN kvHost[s] ELSE ""
        isHost == token # "" /\ stored # "" /\ stored = token
        server == GetLeastLoadedServer(servers, order)
        req == [op |-> "validate", sessionKey |-> s, hostToken |-> token]
    IN /\ resp' = IF ~okExists THEN req @@ [code |-> 500]
                  ELSE IF ~exists THEN req @@ [code |-> 200, valid |-> FALSE]
                  ELSE IF server = "" THEN req @@ [code |-> 503]
                  ELSE req @@ [code |-> 200, valid |-> TRUE, isHost |-> isHost,
                               streaming_url |-> ServerURL(server)]
       /\ selected' = IF okExists /\ exists THEN server ELSE selected
       /\ urls' = IF okExists /\ exists /\ server # ""
                  THEN [urls EXCEPT ![s] = @ \cup {ServerURL(server)}]
                  ELSE urls
       /\ UNCHANGED <<kvVars, hbuf, issued, servers, now, nextSweep, cws,
                      connVars, nodeVars, lst, histVars>>

\* ----------------------------------------- control node: its own WebSocket

\* SETNX key value: the value stored under a key that held old.
SetNX(old, new) == IF old = "" THEN new ELSE old

\* connections.m[s]: a connection is appended at lines 313-315 and taken out by
\* the deferred cleanupConnection when its handler returns.
CtlMembers(s) == {k \in CtlConns : cws[k].pc = "open" /\ cws[k].sessionKey = s}

\* handleWebSocket, lines 276-302: upgrade, then EXISTS session:<key>; a
\* failed command or a missing record closes the connection with code 4001.
CtlWsUpgrade(k, s, ok) ==
    /\ cws[k].pc = "new"
    /\ cws' = [cws EXCEPT ![k] =
                  IF ok /\ kvSession[s] # ""
                  THEN [pc |-> "elect", sessionKey |-> s, isHost |-> FALSE]
                  ELSE [pc |-> "rejected", sessionKey |-> s, isHost |-> FALSE]]
    /\ UNCHANGED <<kvVars, hbuf, issued, servers, now, nextSweep, selected, resp, urls, connVars, nodeVars, lst, histVars>>

\* handleWebSocket, lines 304-338: SETNX session:<key>:host "connected" with
\* the session expiry; the connection whose SETNX stored the value is the
\* host.  Then the connection is registered and the init message written.
CtlWsElectHost(k, ok) ==
    /\ cws[k].pc = "elect"
    /\ LET s == cws[k].sessionKey
           won == ok /\ kvHost[s] = ""
       IN /\ kvHost' = IF ok THEN [kvHost EXCEPT ![s] = SetNX(@, "connected")] ELSE kvHost
          /\ ttl' = IF won THEN [ttl EXCEPT ![s].host = ExpiryTicks] ELSE ttl
          /\ cws' = [cws EXCEPT ![k].pc = "open", ![k].isHost = won]
    /\ UNCHANGED <<kvSession, kvState, hbuf, issued, servers, now, nextSweep, selected,
                   resp, urls, connVars, nodeVars, lst, histVars>>

\* handleWebSocket, lines 345-396: a stateUpdate read from the host is stored
\* under session:<key>:state with the server's time as timestamp and the
\* session expiry, then written to the session's connections; a failed SETEX
\* skips the broadcast.  Frames of other connections are read and ignored.
CtlWsStateUpdate(k, ts, ok) ==
    /\ cws[k].pc = "open"
    /\ LET s == cws[k].sessionKey
       IN IF cws[k].isHost /\ ok
          THEN /\ kvState' = [kvState EXCEPT ![s] = FrameDoc(ts, 0)]
               /\ ttl' = [ttl EXCEPT ![s].state = ExpiryTicks]
          ELSE UNCHANGED <<kvState, ttl>>
    /\ UNCHANGED <<kvSession, kvHost, hbuf, issued, ctlVars, connVars, nodeVars, lst,
                   histVars>>

\* handleWebSocket, lines 346-407 and 282-285: a read error ends the loop; the
\* host deletes session:<key>:host; the connection is closed and unregistered.
CtlWsClose(k, ok) ==
    /\ cws[k].pc = "open"
    /\ LET s == cws[k].sessionKey
           del == cws[k].isHost /\ ok
       IN /\ kvHost' = IF del THEN [kvHost EXCEPT ![s] = ""] ELSE kvHost
          /\ ttl' = IF del THEN [ttl EXCEPT ![s].host = 0] ELSE ttl
    /\ cws' = [cws EXCEPT ![k].pc = "closed"]
    /\ UNCHANGED <<kvSession, kvState, hbuf, issued, servers, now, nextSweep, selected,
                   resp, urls, connVars, nodeVars, lst, histVars>>

\* --------------------------------------------------------------- edge node

Alive(c) == ~crashed[NodeOf(c)]
SessionOf(c) == conn[c].sessionID
\* The PubSub handles subscribed to session-updates:<s>.  A handle is opened by
\* every attach and never closed or unsubscribed.
HandlesOf(s) == {h \in Conns : conn[h] # NoConn /\ conn[h].sessionID = s}

\* The connections in the membership of session s, on any node.
Members(s) == {c \in Conns : \E n \in Nodes : \E i \in 1..Len(clients[n][s]) :
                                 clients[n][s][i] = c}

\* A handler that takes every connection for the host.
EveryConnIsHost(c) == TRUE
\* client.isHost, as handleClientMessage reads it (line 327).
IsHostConn(c) == conn[c].isHost

\* A comparison that lets an equal timestamp through.
NotOlder(msgTs, redisTs) == msgTs >= redisTs
\* stateFromMsg.Timestamp > stateFromRedis.Timestamp (line 355).
Newer(msgTs, redisTs) == msgTs > redisTs

\* select { case client.send <- payload: default: } never waits (lines 278-282
\* and 527-531); a plain send waits for room (line 384).
\* A send without the default case: it waits for room.
WaitsForRoom(q) == Len(q) < QueueCap
TrySendReady(q) == TRUE
SendReady(q) == Len(q) < QueueCap
\* A send that grows the buffer past its capacity.
AppendAnyway(q, f) == Append(q, f)
\* What the select leaves in the buffer.
TrySend(q, f) == IF Len(q) < QueueCap THEN Append(q, f) ELSE q

MetadataShaped(doc) == [type |-> "videoMetadata", state |-> doc]
StateFrame(doc) == [type |-> "stateUpdate", state |-> doc]
MetadataFrame == [type |-> "videoMetadata", state |-> NoDoc]

\* The session mutex of client_lock[s] is free (or not made yet).
MutexFree(n, s) ==
    IF client_lock[n][s] = 0 THEN TRUE ELSE locked[client_lock[n][s]] = 0

\* handleWebSocket, lines 210-247, run without another goroutine of the node
\* in between: upgrade, make the channel, start writePump, make the session
\* mutex if the map has none, append to the membership under it, count the
\* connection, subscribe (the handle replaces the node's pubsub; a listener
\* starts).
\* Of the query string only sessionID and isHost are read; token stands for
\* whatever else the client sends (a hostToken parameter) and is only recorded.
Attach(c, s, isHost, token) ==
    /\ rpc[c] = "new"
    /\ Alive(c)
    /\ conn' = [conn EXCEPT ![c] = [sessionID |-> s, isHost |-> isHost]]
    /\ presented' = [presented EXCEPT ![c] = token]
    /\ wpc' = [wpc EXCEPT ![c] = "wait"]
    /\ clients' = [clients EXCEPT ![NodeOf(c)][s] = Append(@, c)]
    /\ inMap' = [inMap EXCEPT ![NodeOf(c)][s] = TRUE]
    /\ numClients' = [numClients EXCEPT ![NodeOf(c)] = @ + 1]
    /\ pubsub' = [pubsub EXCEPT ![NodeOf(c)] = c]
    /\ lst' = [lst EXCEPT ![c] = [IdleListener EXCEPT !.pc = "load"]]
    /\ rpc' = [rpc EXCEPT ![c] = IF isHost THEN "read" ELSE "init"]
    /\ MutexFree(NodeOf(c), s)
    /\ client_lock' = [client_lock EXCEPT ![NodeOf(c)][s] = IF @ = 0 THEN c ELSE @]
    /\ UNCHANGED <<kvVars, hbuf, issued, rloc, queue, closed, connClosed, crashed, locked,
                   appended,
                   frames, ignored, delivered, dropped, lastTs, createdAt, ctlVars>>

\* handleWebSocket, lines 210-247, one statement at a time, as the handler
\* goroutines of concurrent upgrades interleave.  Neither client_lock nor
\* clients is guarded by a lock of its own (lines 60-61).

\* Lines 217-234: upgrade, make the client and its channel, start writePump,
\* look the session up in client_lock.
AttachCheckLock(c, s, isHost, token) ==
    /\ rpc[c] = "new"
    /\ Alive(c)
    /\ conn' = [conn EXCEPT ![c] = [sessionID |-> s, isHost |-> isHost]]
    /\ presented' = [presented EXCEPT ![c] = token]
    /\ wpc' = [wpc EXCEPT ![c] = "wait"]
    /\ rpc' = [rpc EXCEPT ![c] = IF client_lock[NodeOf(c)][s] = 0
                                 THEN "at_make" ELSE "at_lock"]
    /\ UNCHANGED <<kvVars, hbuf, issued, rloc, queue, closed, connClosed, nodeVars, lst, frames,
                   ignored, delivered, dropped, lastTs, createdAt, ctlVars>>

\* Line 235: client_lock[sessionID] = &sync.Mutex{}, whatever the map holds
\* by now.
AttachMakeLock(c) ==
    /\ rpc[c] = "at_make"
    /\ Alive(c)
    /\ client_lock' = [client_lock EXCEPT ![NodeOf(c)][SessionOf(c)] = c]
    /\ rpc' = [rpc EXCEPT ![c] = "at_lock"]
    /\ UNCHANGED <<kvVars, hbuf, issued, conn, rloc, wpc, queue, closed, connClosed, clients, inMap,
                   numClients, pubsub, crashed, locked, appended, lst, histVars, ctlVars>>

\* Line 238: client_lock[sessionID].Lock() on the mutex the map holds now.
AttachLock(c) ==
    /\ rpc[c] = "at_lock"
    /\ Alive(c)
    /\ locked[client_lock[NodeOf(c)][SessionOf(c)]] = 0
    /\ locked' = [locked EXCEPT ![client_lock[NodeOf(c)][SessionOf(c)]] = c]
    /\ rpc' = [rpc EXCEPT ![c] = "at_read"]
    /\ UNCHANGED <<kvVars, hbuf, issued, conn, rloc, wpc, queue, closed, connClosed, clients, inMap,
                   numClients, pubsub, crashed, client_lock, appended, lst, histVars,
                   ctlVars>>

\* Line 239, right-hand side: append(clients[sessionID], client).
AttachRead(c) ==
    /\ rpc[c] = "at_read"
    /\ Alive(c)
    /\ appended' = [appended EXCEPT ![c] = Append(clients[NodeOf(c)][SessionOf(c)], c)]
    /\ rpc' = [rpc EXCEPT ![c] = "at_write"]
    /\ UNCHANGED <<kvVars, hbuf, issued, conn, rloc, wpc, queue, closed, connClosed, clients, inMap,
                   numClients, pubsub, crashed, client_lock, locked, lst, histVars,
                   ctlVars>>

\* Line 239, the assignment: clients[sessionID] = <the appended slice>.
AttachWrite(c) ==
    /\ rpc[c] = "at_write"
    /\ Alive(c)
    /\ clients' = [clients EXCEPT ![NodeOf(c)][SessionOf(c)] = appended[c]]
    /\ inMap' = [inMap EXCEPT ![NodeOf(c)][SessionOf(c)] = TRUE]
    /\ appended' = [appended EXCEPT ![c] = <<>>]
    /\ rpc' = [rpc EXCEPT ![c] = "at_unlock"]
    /\ UNCHANGED <<kvVars, hbuf, issued, conn, rloc, wpc, queue, closed, connClosed, numClients,
                   pubsub, crashed, client_lock, locked, lst, histVars, ctlVars>>

\* Line 240: client_lock[sessionID].Unlock() on the mutex the map holds now;
\* sync.Mutex has no owner, and unlocking an unlocked one is a fatal error.
AttachUnlock(c) ==
    /\ rpc[c] = "at_unlock"
    /\ Alive(c)
    /\ LET m == client_lock[NodeOf(c)][SessionOf(c)]
       IN IF locked[m] = 0
          THEN /\ crashed' = [crashed EXCEPT ![NodeOf(c)] = TRUE]
               /\ UNCHANGED locked
          ELSE /\ locked' = [locked EXCEPT ![m] = 0]
               /\ UNCHANGED crashed
    /\ rpc' = [rpc EXCEPT ![c] = "at_count"]
    /\ UNCHANGED <<kvVars, hbuf, issued, conn, rloc, wpc, queue, closed, connClosed, clients, inMap,
                   numClients, pubsub, client_lock, appended, lst, histVars, ctlVars>>

\* Lines 242-247: numClients += 1 under numClients_lock, defer cleanupClient,
\* subscribeToSessionUpdates.
AttachCount(c) ==
    /\ rpc[c] = "at_count"
    /\ Alive(c)
    /\ numClients' = [numClients EXCEPT ![NodeOf(c)] = @ + 1]
    /\ pubsub' = [pubsub EXCEPT ![NodeOf(c)] = c]
    /\ lst' = [lst EXCEPT ![c] = [IdleListener EXCEPT !.pc = "load"]]
    /\ rpc' = [rpc EXCEPT ![c] = IF conn[c].isHost THEN "read" ELSE "init"]
    /\ UNCHANGED <<kvVars, hbuf, issued, conn, rloc, wpc, queue, closed, connClosed, clients, inMap,
                   crashed, client_lock, locked, appended, histVars, ctlVars>>

\* Two goroutines about to write the same map without a lock: the runtime may
\* detect it and end the process ("concurrent map writes").
MapWriters(n, pc) == {c \in Conns : NodeOf(c) = n /\ rpc[c] = pc}
MapRaceAbort(n) ==
    /\ ~crashed[n]
    /\ Cardinality(MapWriters(n, "at_make")) > 1
          \/ Cardinality(MapWriters(n, "at_write")) > 1
    /\ crashed' = [crashed EXCEPT ![n] = TRUE]
    /\ UNCHANGED <<kvVars, hbuf, issued, connVars, clients, inMap, numClients, pubsub,
                   client_lock, locked, appended, lst, histVars, ctlVars>>

\* handleWebSocket, lines 249-266: the initial state for a non-host, read from
\* session:<id>:state.  A GET that fails or finds nothing leaves val empty,
\* json.Unmarshal fails and the handler returns (cleanupClient is deferred).
GetInitialState(c, ok) ==
    /\ rpc[c] = "init"
    /\ Alive(c)
    /\ LET doc == IF ok THEN kvState[SessionOf(c)] ELSE NoDoc
       IN IF ~DecodeOk(doc)
          THEN /\ rpc' = [rpc EXCEPT ![c] = "cl_close"]
               /\ UNCHANGED rloc
          ELSE /\ rpc' = [rpc EXCEPT ![c] = "init_send"]
               /\ rloc' = [rloc EXCEPT ![c] = [doc |-> doc, k |-> 0]]
    /\ UNCHANGED <<kvVars, hbuf, issued, conn, wpc, queue, closed, connClosed, nodeVars, lst,
                   histVars, ctlVars>>

\* handleWebSocket, lines 268-284: the value read goes on the connection's
\* own channel with a non-blocking send; then the read loop starts.
SendInitialState(c) ==
    /\ rpc[c] = "init_send"
    /\ Alive(c)
    /\ TrySendReady(queue[c])
    /\ rpc' = [rpc EXCEPT ![c] = "read"]
    /\ queue' = [queue EXCEPT ![c] = TrySend(@, StateFrame(rloc[c].doc))]
    /\ dropped' = [dropped EXCEPT ![c] = IF Len(queue[c]) >= QueueCap THEN 1 ELSE @]
    /\ lastTs' = [lastTs EXCEPT ![c] = IF Len(queue[c]) < QueueCap
                                        THEN DecodeTimestamp(rloc[c].doc) ELSE @]
    /\ rloc' = [rloc EXCEPT ![c] = NoLocal]
    /\ UNCHANGED <<kvVars, hbuf, issued, conn, wpc, closed, connClosed, nodeVars, lst,
                   frames, ignored, delivered, ctlVars, presented, createdAt>>

\* handleClientMessage, "stateUpdate", lines 326-336: a frame from a
\* connection that is not the host is dropped; for the host, GET the state.
RecvStateUpdate(c, ts, ok) ==
    /\ rpc[c] = "read"
    /\ Alive(c)
    /\ IF IsHostConn(c)
       THEN /\ Len(frames) < MaxFrames
            /\ frames' = Append(frames, [c |-> c, ts |-> ts, out |-> "pending", pub |-> FALSE,
                                      aud |-> {}])
            /\ rloc' = [rloc EXCEPT ![c] =
                           [doc |-> IF ok THEN kvState[SessionOf(c)] ELSE NoDoc,
                            k |-> Len(frames) + 1]]
            /\ rpc' = [rpc EXCEPT ![c] = "su_set"]
            /\ UNCHANGED ignored
       ELSE /\ ignored' = ignored \cup {c}
            /\ UNCHANGED <<frames, rloc, rpc>>
    /\ UNCHANGED <<kvVars, hbuf, issued, conn, wpc, queue, closed, connClosed, nodeVars, lst,
                   delivered, dropped, ctlVars, presented, lastTs, createdAt>>

SetOut(k, out) == [frames EXCEPT ![k].out = out]

\* handleClientMessage, lines 338-360: decode, compare, SETEX.  A failed
\* SETEX is logged and the handler goes on to publish.
HostWrite(c, ok) ==
    /\ rpc[c] = "su_set"
    /\ Alive(c)
    /\ LET k == rloc[c].k
           s == SessionOf(c)
           ts == frames[k].ts
       IN IF ~DecodeOk(rloc[c].doc)
          THEN /\ frames' = SetOut(k, "nokey")
               /\ rpc' = [rpc EXCEPT ![c] = "read"]
               /\ UNCHANGED <<kvState, ttl>>
          ELSE IF Newer(ts, DecodeTimestamp(rloc[c].doc))
          THEN /\ rpc' = [rpc EXCEPT ![c] = "su_pub"]
               /\ IF ok
                  THEN /\ kvState' = [kvState EXCEPT ![s] = FrameDoc(ts, k)]
                       /\ ttl' = [ttl EXCEPT ![s].state = ExpiryTicks]
                       /\ frames' = SetOut(k, "written")
                  ELSE /\ frames' = SetOut(k, "writefail")
                       /\ UNCHANGED <<kvState, ttl>>
          ELSE /\ frames' = SetOut(k, "stale")
               /\ rpc' = [rpc EXCEPT ![c] = "read"]
               /\ UNCHANGED <<kvState, ttl>>
    /\ UNCHANGED <<kvSession, kvHost, hbuf, issued, conn, rloc, wpc, queue,
                   closed, connClosed, nodeVars, lst, ignored, delivered, dropped, ctlVars,
                   presented, lastTs,
                   createdAt>>

\* publishStateUpdate, lines 444-456: PUBLISH on session-updates:<id>; Redis
\* pushes the payload to every handle subscribed to the channel.
HostPublish(c, ok) ==
    /\ rpc[c] = "su_pub"
    /\ Alive(c)
    /\ LET k == rloc[c].k
           msg == FrameDoc(frames[k].ts, k)
       IN hbuf' = [h \in Conns |->
                     IF ok /\ h \in HandlesOf(SessionOf(c))
                     THEN Append(hbuf[h], msg) ELSE hbuf[h]]
    /\ rpc' = [rpc EXCEPT ![c] = "read"]
    /\ frames' = [frames EXCEPT ![rloc[c].k].pub = ok,
                                ![rloc[c].k].aud = IF ok THEN Members(SessionOf(c)) ELSE {}]
    /\ rloc' = [rloc EXCEPT ![c] = NoLocal]
    /\ UNCHANGED <<kvVars, issued, conn, wpc, queue, closed, connClosed, nodeVars, lst,
                   ignored, delivered, dropped, ctlVars, presented, lastTs, createdAt>>

\* handleClientMessage, "videoMetadata", lines 367-384: the reply goes on the
\* connection's own channel with a plain send, which waits while it is full.
RecvVideoMetadata(c) ==
    /\ rpc[c] = "read"
    /\ Alive(c)
    /\ rpc' = [rpc EXCEPT ![c] = "vm_send"]
    /\ UNCHANGED <<kvVars, hbuf, issued, conn, rloc, wpc, queue, closed, connClosed, nodeVars,
                   lst, histVars, ctlVars>>

SendVideoMetadata(c) ==
    /\ rpc[c] = "vm_send"
    /\ Alive(c)
    /\ SendReady(queue[c])
    /\ queue' = [queue EXCEPT ![c] = Append(@, MetadataFrame)]
    /\ rpc' = [rpc EXCEPT ![c] = "read"]
    /\ UNCHANGED <<kvVars, hbuf, issued, conn, rloc, wpc, closed, connClosed, nodeVars, lst,
                   histVars, ctlVars>>

\* handleClientMessage, "heartbeat", lines 386-389: the reader goroutine
\* writes the heartbeatAck on the socket itself (client.conn.WriteJSON), not
\* through the channel writePump serves.
RecvHeartbeat(c) ==
    /\ rpc[c] = "read"
    /\ Alive(c)
    /\ rpc' = [rpc EXCEPT ![c] = "hb_write"]
    /\ UNCHANGED <<kvVars, hbuf, issued, conn, rloc, wpc, queue, closed, connClosed, nodeVars,
                   lst, histVars, ctlVars>>

\* WriteJSON returns (its error is not looked at); back to ReadMessage.
HeartbeatWritten(c) ==
    /\ rpc[c] = "hb_write"
    /\ Alive(c)
    /\ rpc' = [rpc EXCEPT ![c] = "read"]
    /\ UNCHANGED <<kvVars, hbuf, issued, conn, rloc, wpc, queue, closed, connClosed, nodeVars,
                   lst, histVars, ctlVars>>

\* handleWebSocket, lines 286-291: ReadMessage fails (the peer went away);
\* the loop ends and the deferred cleanupClient runs.
ReadError(c) ==
    /\ rpc[c] = "read"
    /\ Alive(c)
    /\ rpc' = [rpc EXCEPT ![c] = "cl_close"]
    /\ UNCHANGED <<kvVars, hbuf, issued, conn, rloc, wpc, queue, closed, connClosed, nodeVars,
                   lst, histVars, ctlVars>>

\* cleanupClient, lines 396-398: close(client.send).
CleanupClose(c) ==
    /\ rpc[c] = "cl_close"
    /\ Alive(c)
    /\ closed' = [closed EXCEPT ![c] = TRUE]
    /\ rpc' = [rpc EXCEPT ![c] = "cl_remove"]
    /\ UNCHANGED <<kvVars, hbuf, issued, conn, rloc, wpc, queue, connClosed, nodeVars,
                   lst, histVars, ctlVars>>

\* append(sessionClients[:i], sessionClients[i+1:]...)
RemoveFirst(seq, c) ==
    LET idx == {i \in 1..Len(seq) : seq[i] = c}
    IN IF idx = {} THEN seq
       ELSE LET i == CHOOSE x \in idx : \A y \in idx : x <= y
            IN SubSeq(seq, 1, i - 1) \o SubSeq(seq, i + 1, Len(seq))

\* cleanupClient, lines 400-427: under the session mutex close the socket and
\* take the client out of the membership, both only if the client is found in
\* it (lines 411-422); then count it out.  With an empty membership the
\* function returns before the counter.
CleanupRemove(c) ==
    /\ rpc[c] = "cl_remove"
    /\ Alive(c)
    /\ MutexFree(NodeOf(c), SessionOf(c))
    /\ LET n == NodeOf(c)
           s == SessionOf(c)
       IN IF Len(clients[n][s]) = 0
          THEN UNCHANGED <<clients, numClients, connClosed>>
          ELSE /\ clients' = [clients EXCEPT ![n][s] = RemoveFirst(@, c)]
               /\ connClosed' = [connClosed EXCEPT ![c] =
                                    @ \/ \E i \in 1..Len(clients[n][s]) : clients[n][s][i] = c]
               /\ numClients' = [numClients EXCEPT ![n] = @ - 1]
    /\ rpc' = [rpc EXCEPT ![c] = "gone"]
    /\ UNCHANGED <<kvVars, hbuf, issued, conn, rloc, wpc, queue, closed, inMap, pubsub,
                   crashed, client_lock, locked, appended, lst, histVars, ctlVars>>

\* writePump, lines 298-304: receive from the channel.  A closed and drained
\* channel ends the writer.
WriterTake(c) ==
    /\ wpc[c] = "wait"
    /\ Alive(c)
    /\ IF queue[c] # <<>>
       THEN /\ queue' = [queue EXCEPT ![c] = Tail(@)]
            /\ wpc' = [wpc EXCEPT ![c] = "write"]
       ELSE /\ closed[c]
            /\ wpc' = [wpc EXCEPT ![c] = "done"]
            /\ UNCHANGED queue
    /\ UNCHANGED <<kvVars, hbuf, issued, conn, rpc, rloc, closed, connClosed, nodeVars, lst,
                   histVars, ctlVars>>

\* A write that Close() on the socket does not interrupt: it returns only
\* when the peer takes the frame.
WriteOutlastsClose(c, ok) ==
    /\ wpc[c] = "write"
    /\ Alive(c)
    /\ ok /\ ~connClosed[c]
    /\ wpc' = [wpc EXCEPT ![c] = "wait"]
    /\ UNCHANGED <<kvVars, hbuf, issued, conn, rpc, rloc, queue, closed, connClosed,
                   nodeVars, lst, histVars, ctlVars>>

\* writePump, lines 306-310: WriteMessage returns; an error ends the writer.
\* Once cleanupClient closed the socket every write fails.
WriterWritten(c, ok) ==
    /\ wpc[c] = "write"
    /\ Alive(c)
    /\ ok => ~connClosed[c]
    /\ wpc' = [wpc EXCEPT ![c] = IF ok THEN "wait" ELSE "done"]
    /\ UNCHANGED <<kvVars, hbuf, issued, conn, rpc, rloc, queue, closed, connClosed, nodeVars,
                   lst, histVars, ctlVars>>

\* ------------------------------------------------------- the pub/sub bridge

\* The listener evaluates the global pubsub (line 464) before it blocks in
\* ReceiveMessage: it waits on whichever handle the variable held then.
ListenerLoad(l) ==
    /\ lst[l].pc = "load"
    /\ Alive(l)
    /\ lst' = [lst EXCEPT ![l] = [IdleListener EXCEPT !.pc = "recv",
                                                       !.h = pubsub[NodeOf(l)]]]
    /\ UNCHANGED <<kvVars, hbuf, issued, connVars, nodeVars, histVars, ctlVars>>

\* ReceiveMessage returns; handleSessionUpdate takes the session id from the
\* channel name; broadcastState, lines 492-506, copies the membership under
\* the session mutex and returns if it is empty.
ListenerRecv(l) ==
    /\ lst[l].pc = "recv"
    /\ Alive(l)
    /\ hbuf[lst[l].h] # <<>>
    /\ MutexFree(NodeOf(l), conn[lst[l].h].sessionID)
    /\ LET h == lst[l].h
           snap == clients[NodeOf(l)][conn[h].sessionID]
       IN /\ hbuf' = [hbuf EXCEPT ![h] = Tail(@)]
          /\ lst' = [lst EXCEPT ![l] =
                        IF Len(snap) = 0
                        THEN [IdleListener EXCEPT !.pc = "load"]
                        ELSE [pc |-> "bcast", h |-> h, msg |-> Head(hbuf[h]),
                              snap |-> snap, i |-> 1, j |-> 1]]
    /\ UNCHANGED <<kvVars, issued, connVars, nodeVars, histVars, ctlVars>>

\* The same two steps of broadcastState as handler goroutines interleave with
\* them.  Line 496: ReceiveMessage has returned, the listener locks the mutex
\* the map holds now.
BcastLock(l) ==
    /\ lst[l].pc = "recv"
    /\ Alive(l)
    /\ hbuf[lst[l].h] # <<>>
    /\ LET h == lst[l].h
           m == client_lock[NodeOf(l)][conn[h].sessionID]
       IN /\ m # 0
          /\ locked[m] = 0
          /\ locked' = [locked EXCEPT ![m] = l]
          /\ hbuf' = [hbuf EXCEPT ![h] = Tail(@)]
          /\ lst' = [lst EXCEPT ![l] = [IdleListener EXCEPT !.pc = "locked", !.h = h,
                                                            !.msg = Head(hbuf[h])]]
    /\ UNCHANGED <<kvVars, issued, connVars, clients, inMap, numClients, pubsub, crashed,
                   client_lock, appended, histVars, ctlVars>>

\* Lines 498-506: copy the membership, then Unlock() on the mutex the map
\* holds now.
BcastSnapshot(l) ==
    /\ lst[l].pc = "locked"
    /\ Alive(l)
    /\ LET h == lst[l].h
           snap == clients[NodeOf(l)][conn[h].sessionID]
           m == client_lock[NodeOf(l)][conn[h].sessionID]
       IN /\ IF locked[m] = 0
             THEN /\ crashed' = [crashed EXCEPT ![NodeOf(l)] = TRUE]
                  /\ UNCHANGED locked
             ELSE /\ locked' = [locked EXCEPT ![m] = 0]
                  /\ UNCHANGED crashed
          /\ lst' = [lst EXCEPT ![l] =
                        IF Len(snap) = 0
                        THEN [IdleListener EXCEPT !.pc = "load"]
                        ELSE [pc |-> "bcast", h |-> h, msg |-> lst[l].msg,
                              snap |-> snap, i |-> 1, j |-> 1]]
    /\ UNCHANGED <<kvVars, hbuf, issued, connVars, clients, inMap, numClients, pubsub,
                   client_lock, appended, histVars, ctlVars>>

\* The client the next send of l's broadcast goes to.
Target(l) == lst[l].snap[lst[l].j]

\* The loop counters after one send: the inner loop over clientsToSend runs
\* once per iteration of the outer loop over clientsToSend (lines 508, 523).
Advance(r) ==
    IF r.j < Len(r.snap) THEN [r EXCEPT !.j = r.j + 1]
    ELSE IF r.i < Len(r.snap) THEN [r EXCEPT !.i = r.i + 1, !.j = 1]
    ELSE [IdleListener EXCEPT !.pc = "load"]

\* broadcastState, lines 523-532: one non-blocking send.  A send on a channel
\* cleanupClient has closed panics, and nothing recovers it.
BcastSend(l) ==
    /\ lst[l].pc = "bcast"
    /\ Alive(l)
    /\ LET t == Target(l)
           k == lst[l].msg.upd
       IN IF closed[t]
          THEN /\ crashed' = [crashed EXCEPT ![NodeOf(l)] = TRUE]
               /\ UNCHANGED <<queue, lst, delivered, dropped, lastTs>>
          ELSE /\ TrySendReady(queue[t])
               /\ queue' = [queue EXCEPT ![t] = TrySend(@, StateFrame(lst[l].msg))]
               /\ lst' = [lst EXCEPT ![l] = Advance(@)]
               /\ IF Len(queue[t]) < QueueCap
                  THEN /\ delivered' = [delivered EXCEPT ![t][k] = IF @ < 2 THEN @ + 1 ELSE 2]
                       /\ lastTs' = [lastTs EXCEPT ![t] = DecodeTimestamp(lst[l].msg)]
                       /\ UNCHANGED dropped
                  ELSE /\ dropped' = [dropped EXCEPT ![t] = 1]
                       /\ UNCHANGED <<delivered, lastTs>>
               /\ UNCHANGED crashed
    /\ UNCHANGED <<kvVars, hbuf, issued, conn, rpc, rloc, wpc, closed, connClosed, clients, inMap,
                   numClients, pubsub, client_lock, locked, appended, frames, ignored, ctlVars,
                   presented, createdAt>>

\* ------------------------------------------------------------ specification

\* The registry alone: edge nodes register and report, the sweep evicts,
\* the selection is called.
NextReg ==
    \/ \E id \in ServerIds, cap \in 1..MaxCapacity, load \in 0..MaxLoad,
          status \in {"active", "stale"} : RegisterStreamingServer(id, cap, load, status)
    \/ \E id \in ServerIds, load \in 0..MaxLoad : HandleHeartbeat(id, load)
    \/ CleanupInactiveServers
    \/ ClockTick
    \/ \E order \in Orders(servers) : SelectServer(order)

SpecReg == Init /\ [][NextReg]_vars

Next ==
    \/ \E s \in Sessions, nok \in 0..3 : CreateSession(s, nok)
    \/ \E s \in Sessions, nok \in 0..2 : CreateSessionInline(s, nok)
    \/ \E s \in Sessions, ok \in BOOLEAN : GetSession(s, ok)
    \/ Tick
    \/ \E c \in Conns, s \in Sessions, isHost \in BOOLEAN :
          \E token \in TokensFor(s) : Attach(c, s, isHost, token)
    \/ \E c \in Conns, ok \in BOOLEAN : GetInitialState(c, ok)
    \/ \E c \in Conns : SendInitialState(c)
    \/ \E c \in Conns, ts \in 1..MaxTs, ok \in BOOLEAN : RecvStateUpdate(c, ts, ok)
    \/ \E c \in Conns, ok \in BOOLEAN : HostWrite(c, ok)
    \/ \E c \in Conns, ok \in BOOLEAN : HostPublish(c, ok)
    \/ \E c \in Conns : RecvVideoMetadata(c)
    \/ \E c \in Conns : SendVideoMetadata(c)
    \/ \E c \in Conns : RecvHeartbeat(c)
    \/ \E c \in Conns : HeartbeatWritten(c)
    \/ \E c \in Conns : ReadError(c)
    \/ \E c \in Conns : CleanupClose(c)
    \/ \E c \in Conns : CleanupRemove(c)
    \/ \E c \in Conns : WriterTake(c)
    \/ \E c \in Conns, ok \in BOOLEAN : WriterWritten(c, ok)
    \/ \E l \in Conns : ListenerLoad(l)
    \/ \E l \in Conns : ListenerRecv(l)
    \/ \E l \in Conns : BcastSend(l)
    \/ NextReg
    \/ \E s \in Sessions, order \in Orders(servers), okExists \in BOOLEAN,
          okGet \in BOOLEAN :
          \E token \in ValidateTokens(s) : ValidateSession(s, token, order, okExists, okGet)

    \/ \E k \in CtlConns, s \in Sessions, ok \in BOOLEAN : CtlWsUpgrade(k, s, ok)
    \/ \E k \in CtlConns, ok \in BOOLEAN : CtlWsElectHost(k, ok)
    \/ \E k \in CtlConns, ts \in 1..MaxTs, ok \in BOOLEAN : CtlWsStateUpdate(k, ts, ok)
    \/ \E k \in CtlConns, ok \in BOOLEAN : CtlWsClose(k, ok)

Spec == Init /\ [][Next]_vars

\* The host key: sessions are created (any SETEX may fail) and expire, and
\* clients open, use and close WebSocket connections on the control node.
NextHost ==
    \/ \E s \in Sessions, nok \in 0..3 : CreateSession(s, nok)
    \/ Tick
    \/ \E k \in CtlConns, s \in Sessions, ok \in BOOLEAN : CtlWsUpgrade(k, s, ok)
    \/ \E k \in CtlConns, ok \in BOOLEAN : CtlWsElectHost(k, ok)
    \/ \E k \in CtlConns, ts \in 1..MaxTs, ok \in BOOLEAN : CtlWsStateUpdate(k, ts, ok)
    \/ \E k \in CtlConns, ok \in BOOLEAN : CtlWsClose(k, ok)
    \/ \E s \in Sessions, order \in Orders(servers) :
          \E token \in ValidateTokens(s) : ValidateSession(s, token, order, TRUE, TRUE)

SpecHost == Init /\ [][NextHost]_vars

\* The control node's session API and the registry it selects from: Redis
\* answers, nodes register as active with the full capacity and report loads.
NextCtl ==
    \/ \E s \in Sessions : CreateSession(s, 3)
    \/ \E id \in ServerIds, load \in 0..MaxLoad :
          RegisterStreamingServer(id, MaxCapacity, load, "active")
    \/ \E id \in ServerIds, load \in 0..MaxLoad : HandleHeartbeat(id, load)
    \/ \E s \in Sessions, order \in Orders(servers) :
          \E token \in ValidateTokens(s) : ValidateSession(s, token, order, TRUE, TRUE)

SpecCtl == Init /\ [][NextCtl]_vars


\* The store and the writers: sessions are created and expire, connections
\* attach, hosts write.  Every Redis command may fail.
NextKV ==
    \/ \E s \in Sessions, nok \in 0..3 : CreateSession(s, nok)
    \/ Tick
    \/ \E c \in Conns, s \in Sessions, isHost \in BOOLEAN : Attach(c, s, isHost, "")
    \/ \E c \in Conns, ts \in 1..MaxTs, ok \in BOOLEAN : RecvStateUpdate(c, ts, ok)
    \/ \E c \in Conns, ok \in BOOLEAN : HostWrite(c, ok)
    \/ \E c \in Conns, ok \in BOOLEAN : HostPublish(c, ok)

SpecKV == Init /\ [][NextKV]_vars

\* Sessions created at different instants of the control node's clock, and
\* hosts that send stateUpdate frames stamped on the same time scale.
NextStamp ==
    \/ now < MaxTs /\ ClockTick
    \/ \E s \in Sessions : CreateSession(s, 3)
    \/ \E c \in Conns, s \in Sessions, isHost \in BOOLEAN : Attach(c, s, isHost, "")
    \/ \E c \in Conns, ts \in 1..MaxTs : RecvStateUpdate(c, ts, TRUE)
    \/ \E c \in Conns : HostWrite(c, TRUE)
    \/ \E c \in Conns : HostPublish(c, TRUE)

SpecStamp == Init /\ [][NextStamp]_vars

\* The fan-out: both sessions exist (createSession has run for each), Redis
\* answers, and FanFrames host updates are followed from the reader through
\* the bus and the listeners to the send channels and the writers.
InitFan ==
    /\ kvSession = [s \in Sessions |-> "active"]
    /\ kvHost = [s \in Sessions |-> HostTokenFor(s)]
    /\ kvState = [s \in Sessions |-> InitialDoc]
    /\ ttl = [s \in Sessions |->
                [session |-> ExpiryTicks, host |-> ExpiryTicks, state |-> ExpiryTicks]]
    /\ hbuf = [c \in Conns |-> <<>>]
    /\ issued = Sessions
    /\ conn = [c \in Conns |-> NoConn]
    /\ rpc = [c \in Conns |-> "new"]
    /\ rloc = [c \in Conns |-> NoLocal]
    /\ wpc = [c \in Conns |-> "none"]
    /\ queue = [c \in Conns |-> <<>>]
    /\ closed = [c \in Conns |-> FALSE]
    /\ connClosed = [c \in Conns |-> FALSE]
    /\ clients = [n \in Nodes |-> [s \in Sessions |-> <<>>]]
    /\ inMap = [n \in Nodes |-> [s \in Sessions |-> FALSE]]
    /\ numClients = [n \in Nodes |-> 0]
    /\ pubsub = [n \in Nodes |-> 0]
    /\ lst = [c \in Conns |-> IdleListener]
    /\ crashed = [n \in Nodes |-> FALSE]
    /\ client_lock = [n \in Nodes |-> [s \in Sessions |-> 0]]
    /\ locked = [m \in Conns |-> 0]
    /\ appended = [c \in Conns |-> <<>>]
    /\ frames = <<>>
    /\ ignored = {}
    /\ delivered = [c \in Conns |-> [k \in 1..MaxFrames |-> 0]]
    /\ dropped = [c \in Conns |-> 0]
    /\ presented = [c \in Conns |-> ""]
    /\ lastTs = [c \in Conns |-> 0]
    /\ createdAt = [s \in Sessions |-> 0]
    /\ servers = [id \in ServerIds |-> NoServer]
    /\ now = 0
    /\ nextSweep = SweepEvery
    /\ selected = ""
    /\ resp = NoResponse
    /\ urls = [s \in Sessions |-> {}]
    /\ cws = [k \in CtlConns |-> NoCtlConn]

NextFan ==
    \/ \E c \in Conns, s \in Sessions, isHost \in BOOLEAN : Attach(c, s, isHost, "")
    \/ \E c \in Conns : GetInitialState(c, TRUE)
    \/ \E c \in Conns : SendInitialState(c)
    \/ \E c \in Conns, ts \in 1..MaxTs :
          /\ IsHostConn(c) => Len(frames) < FanFrames
          /\ RecvStateUpdate(c, ts, TRUE)
    \/ \E c \in Conns : HostWrite(c, TRUE)
    \/ \E c \in Conns : HostPublish(c, TRUE)
    \/ \E c \in Conns : WriterTake(c)
    \/ \E c \in Conns, ok \in BOOLEAN : WriterWritten(c, ok)
    \/ \E l \in Conns : ListenerLoad(l)
    \/ \E l \in Conns : ListenerRecv(l)
    \/ \E l \in Conns : BcastSend(l)

SpecFan == InitFan /\ [][NextFan]_vars

\* The order of the frames a participant gets: one session, Redis answers,
\* up to MaxFrames host updates, attaches at any moment; the writers are left
\* out (the channels only fill).
NextOrder ==
    \/ \E c \in Conns, isHost \in BOOLEAN : Attach(c, "s1", isHost, "")
    \/ \E c \in Conns : GetInitialState(c, TRUE)
    \/ \E c \in Conns : SendInitialState(c)
    \/ \E c \in Conns, ts \in 1..MaxTs : RecvStateUpdate(c, ts, TRUE)
    \/ \E c \in Conns : HostWrite(c, TRUE)
    \/ \E c \in Conns : HostPublish(c, TRUE)
    \/ \E l \in Conns : ListenerLoad(l)
    \/ \E l \in Conns : ListenerRecv(l)
    \/ \E l \in Conns : BcastSend(l)

SpecOrder == InitFan /\ [][NextOrder]_vars

\* ------------------------------------ edge node: registration and load

\* The registry id an edge node runs under (SERVER_ID).
ServerIdOf(n) == IF n = "e1" THEN "ss1" ELSE "ss2"

\* sendHeartbeats: on every tick of its ticker the node posts CurrentLoad:
\* numClients, read under numClients_lock.
SendHeartbeat(n) ==
    /\ ~crashed[n]
    /\ HandleHeartbeat(ServerIdOf(n), numClients[n])

\* Concurrent upgrades on the edge nodes, statement by statement, with
\* updates of a host, broadcasts, drains and heartbeats.
NextAttach ==
    \/ \E c \in Conns, isHost \in BOOLEAN : AttachCheckLock(c, "s1", isHost, "")
    \/ \E c \in Conns : AttachMakeLock(c)
    \/ \E c \in Conns : AttachLock(c)
    \/ \E c \in Conns : AttachRead(c)
    \/ \E c \in Conns : AttachWrite(c)
    \/ \E c \in Conns : AttachUnlock(c)
    \/ \E c \in Conns : AttachCount(c)
    \/ \E n \in Nodes : MapRaceAbort(n)
    \/ \E c \in Conns : GetInitialState(c, TRUE)
    \/ \E c \in Conns : SendInitialState(c)
    \/ \E c \in Conns : ReadError(c)
    \/ \E c \in Conns : CleanupClose(c)
    \/ \E c \in Conns : CleanupRemove(c)
    \/ \E c \in Conns : Len(frames) < FanFrames /\ RecvStateUpdate(c, 1, TRUE)
    \/ \E c \in Conns : HostWrite(c, TRUE)
    \/ \E c \in Conns : HostPublish(c, TRUE)
    \/ \E l \in Conns : ListenerLoad(l)
    \/ \E l \in Conns : BcastLock(l)
    \/ \E l \in Conns : BcastSnapshot(l)
    \/ \E l \in Conns : BcastSend(l)
    \/ \E n \in Nodes : SendHeartbeat(n)

SpecAttach == InitFan /\ [][NextAttach]_vars

\* Attaches, one update of a host, broadcasts and drains on session s1; the
\* writers are left out, a full queue drops the frame.
NextDrain ==
    \/ \E c \in Conns, isHost \in BOOLEAN : Attach(c, "s1", isHost, "")
    \/ \E c \in Conns : GetInitialState(c, TRUE)
    \/ \E c \in Conns : SendInitialState(c)
    \/ \E c \in Conns : Len(frames) < FanFrames /\ RecvStateUpdate(c, 1, TRUE)
    \/ \E c \in Conns : HostWrite(c, TRUE)
    \/ \E c \in Conns : HostPublish(c, TRUE)
    \/ \E l \in Conns : ListenerLoad(l)
    \/ \E l \in Conns : ListenerRecv(l)
    \/ \E l \in Conns : BcastSend(l)
    \/ \E c \in Conns : ReadError(c)
    \/ \E c \in Conns : CleanupClose(c)
    \/ \E c \in Conns : CleanupRemove(c)

SpecDrain == InitFan /\ [][NextDrain]_vars

\* Attaches, the initial frame, the writers and drains.
NextWriter ==
    \/ \E c \in Conns, s \in Sessions, isHost \in BOOLEAN : Attach(c, s, isHost, "")
    \/ \E c \in Conns : GetInitialState(c, TRUE)
    \/ \E c \in Conns : SendInitialState(c)
    \/ \E c \in Conns : WriterTake(c)
    \/ \E c \in Conns, ok \in BOOLEAN : WriterWritten(c, ok)
    \/ \E c \in Conns : ReadError(c)
    \/ \E c \in Conns : CleanupClose(c)
    \/ \E c \in Conns : CleanupRemove(c)

SpecWriter == InitFan /\ [][NextWriter]_vars

\* Every goroutine that can take a step takes it; what the peer does (a read
\* that fails, a write that fails) is not forced.
FairWriter ==
    /\ \A c \in Conns : WF_vars(GetInitialState(c, TRUE))
    /\ \A c \in Conns : WF_vars(SendInitialState(c))
    /\ \A c \in Conns : WF_vars(WriterTake(c))
    /\ \A c \in Conns : WF_vars(WriterWritten(c, TRUE))
    /\ \A c \in Conns : WF_vars(CleanupClose(c))
    /\ \A c \in Conns : WF_vars(CleanupRemove(c))

SpecWriterFair == SpecWriter /\ FairWriter

\* Writers and drains with the handlers of concurrent upgrades interleaved
\* statement by statement; the clients are non-hosts, so each gets an initial
\* frame that its writer has to write.
NextPump ==
    \/ \E c \in Conns : AttachCheckLock(c, "s1", FALSE, "")
    \/ \E c \in Conns : AttachMakeLock(c)
    \/ \E c \in Conns : AttachLock(c)
    \/ \E c \in Conns : AttachRead(c)
    \/ \E c \in Conns : AttachWrite(c)
    \/ \E c \in Conns : AttachUnlock(c)
    \/ \E c \in Conns : AttachCount(c)
    \/ \E n \in Nodes : MapRaceAbort(n)
    \/ \E c \in Conns : GetInitialState(c, TRUE)
    \/ \E c \in Conns : SendInitialState(c)
    \/ \E c \in Conns : WriterTake(c)
    \/ \E c \in Conns, ok \in BOOLEAN : WriterWritten(c, ok)
    \/ \E c \in Conns : ReadError(c)
    \/ \E c \in Conns : CleanupClose(c)
    \/ \E c \in Conns : CleanupRemove(c)

SpecPump == InitFan /\ [][NextPump]_vars

\* Every goroutine that can take a step takes it.  A write to the peer may
\* never return (a slow client) unless the socket is closed: then it returns
\* with an error.
FairPump ==
    /\ \A c \in Conns : WF_vars(AttachMakeLock(c))
    /\ \A c \in Conns : WF_vars(AttachLock(c))
    /\ \A c \in Conns : WF_vars(AttachRead(c))
    /\ \A c \in Conns : WF_vars(AttachWrite(c))
    /\ \A c \in Conns : WF_vars(AttachUnlock(c))
    /\ \A c \in Conns : WF_vars(AttachCount(c))
    /\ \A c \in Conns : WF_vars(GetInitialState(c, TRUE))
    /\ \A c \in Conns : WF_vars(SendInitialState(c))
    /\ \A c \in Conns : WF_vars(WriterTake(c))
    /\ \A c \in Conns : WF_vars(connClosed[c] /\ WriterWritten(c, FALSE))
    /\ \A c \in Conns : WF_vars(CleanupClose(c))
    /\ \A c \in Conns : WF_vars(CleanupRemove(c))

SpecPumpFair == SpecPump /\ FairPump

\* Attaches, the initial frame, the writers, heartbeat frames and drains.
NextBeat ==
    \/ \E c \in Conns, s \in Sessions, isHost \in BOOLEAN : Attach(c, s, isHost, "")
    \/ \E c \in Conns : GetInitialState(c, TRUE)
    \/ \E c \in Conns : SendInitialState(c)
    \/ \E c \in Conns : WriterTake(c)
    \/ \E c \in Conns, ok \in BOOLEAN : WriterWritten(c, ok)
    \/ \E c \in Conns : RecvHeartbeat(c)
    \/ \E c \in Conns : HeartbeatWritten(c)
    \/ \E c \in Conns : ReadError(c)
    \/ \E c \in Conns : CleanupClose(c)
    \/ \E c \in Conns : CleanupRemove(c)

SpecBeat == InitFan /\ [][NextBeat]_vars

\* The initial state: clients attach while hosts update the sessions and
\* broadcasts run; the GET of the initial state may fail, and the handler
\* that returns then runs cleanupClient.  The writers are left out.
NextInitial ==
    \/ \E c \in Conns, isHost \in BOOLEAN : Attach(c, "s1", isHost, "")
    \/ \E c \in Conns, ok \in BOOLEAN : GetInitialState(c, ok)
    \/ \E c \in Conns : SendInitialState(c)
    \/ \E c \in Conns, ts \in 1..MaxTs : RecvStateUpdate(c, ts, TRUE)
    \/ \E c \in Conns : HostWrite(c, TRUE)
    \/ \E c \in Conns : HostPublish(c, TRUE)
    \/ \E l \in Conns : ListenerLoad(l)
    \/ \E l \in Conns : ListenerRecv(l)
    \/ \E l \in Conns : BcastSend(l)
    \/ \E c \in Conns : CleanupClose(c)
    \/ \E c \in Conns : CleanupRemove(c)

SpecInitial == InitFan /\ [][NextInitial]_vars

\* Convergence: host-flagged connections of one session send updates (the
\* k-th frame the node reads is stamped k), the listeners fan them out and
\* the writers drain the channels.
NextConverge ==
    \/ \E c \in Conns : Attach(c, "s1", TRUE, "")
    \/ \E c \in Conns : Len(frames) < MaxTs /\ RecvStateUpdate(c, Len(frames) + 1, TRUE)
    \/ \E c \in Conns : HostWrite(c, TRUE)
    \/ \E c \in Conns : HostPublish(c, TRUE)
    \/ \E c \in Conns : WriterTake(c)
    \/ \E c \in Conns : WriterWritten(c, TRUE)
    \/ \E l \in Conns : ListenerLoad(l)
    \/ \E l \in Conns : ListenerRecv(l)
    \/ \E l \in Conns : BcastSend(l)

SpecConverge == InitFan /\ [][NextConverge]_vars

\* Joining: sessions are created and expire while clients open WebSocket
\* connections on the control node and on the edge nodes, for session ids
\* with and without a record.
NextJoin ==
    \/ \E s \in Sessions : CreateSession(s, 3)
    \/ Tick
    \/ \E c \in Conns, s \in Sessions, isHost \in BOOLEAN : Attach(c, s, isHost, "")
    \/ \E k \in CtlConns, s \in Sessions : CtlWsUpgrade(k, s, TRUE)
    \/ \E k \in CtlConns : CtlWsElectHost(k, TRUE)
    \/ \E k \in CtlConns : CtlWsClose(k, TRUE)

SpecJoin == Init /\ [][NextJoin]_vars

\* Reading a session back: sessions are created by either createSession,
\* hosts on the edge nodes write updates, and clients GET the session from
\* the control node.  Redis answers.
NextGet ==
    \/ \E s \in Sessions : CreateSession(s, 3)
    \/ \E s \in Sessions : CreateSessionInline(s, 2)
    \/ \E c \in Conns, s \in Sessions : Attach(c, s, TRUE, "")
    \/ \E c \in Conns, ts \in 1..MaxTs : RecvStateUpdate(c, ts, TRUE)
    \/ \E c \in Conns : HostWrite(c, TRUE)
    \/ \E c \in Conns : HostPublish(c, TRUE)
    \/ \E s \in Sessions : GetSession(s, TRUE)

SpecGet == Init /\ [][NextGet]_vars

\* Creating sessions: either createSession runs, any of its SETEX may fail,
\* and the keys expire.
NextCreate ==
    \/ \E s \in Sessions, nok \in 0..3 : CreateSession(s, nok)
    \/ \E s \in Sessions, nok \in 0..2 : CreateSessionInline(s, nok)
    \/ \E s \in Sessions, ok \in BOOLEAN : GetSession(s, ok)
    \/ Tick

SpecCreate == Init /\ [][NextCreate]_vars

\* The videoMetadata exchange: clients attach, ask for the metadata, the
\* writers serve the queues, connections drain.
NextMeta ==
    \/ \E c \in Conns, isHost \in BOOLEAN : Attach(c, "s1", isHost, "")
    \/ \E c \in Conns : GetInitialState(c, TRUE)
    \/ \E c \in Conns : SendInitialState(c)
    \/ \E c \in Conns : RecvVideoMetadata(c)
    \/ \E c \in Conns : SendVideoMetadata(c)
    \/ \E c \in Conns : WriterTake(c)
    \/ \E c \in Conns, ok \in BOOLEAN : WriterWritten(c, ok)
    \/ \E c \in Conns : ReadError(c)
    \/ \E c \in Conns : CleanupClose(c)
    \/ \E c \in Conns : CleanupRemove(c)

SpecMeta == InitFan /\ [][NextMeta]_vars

\* Every goroutine that can take a step takes it; the frames a client sends
\* and the failures of its socket are not forced.
FairMeta ==
    /\ \A c \in Conns : WF_vars(GetInitialState(c, TRUE))
    /\ \A c \in Conns : WF_vars(SendInitialState(c))
    /\ \A c \in Conns : WF_vars(SendVideoMetadata(c))
    /\ \A c \in Conns : WF_vars(WriterTake(c))
    /\ \A c \in Conns : WF_vars(WriterWritten(c, TRUE))
    /\ \A c \in Conns : WF_vars(CleanupClose(c))
    /\ \A c \in Conns : WF_vars(CleanupRemove(c))

SpecMetaFair == SpecMeta /\ FairMeta

\* Who may write: both sessions exist, Redis answers; a /ws request carries
\* isHost and, or not, the session's host token.
NextAuth ==
    \/ \E c \in Conns, s \in Sessions, isHost \in BOOLEAN :
          \E token \in TokensFor(s) : Attach(c, s, isHost, token)
    \/ \E c \in Conns, ts \in 1..MaxTs : RecvStateUpdate(c, ts, TRUE)
    \/ \E c \in Conns : HostWrite(c, TRUE)
    \/ \E c \in Conns : HostPublish(c, TRUE)

SpecAuth == InitFan /\ [][NextAuth]_vars

\* The fan-out with the scheduling Go gives: a goroutine that can run does,
\* so every handler gets on with its Redis commands and every listener with
\* its loop.  Writers get no fairness: a client may stop reading its socket.
FairFan ==
    /\ \A c \in Conns : WF_vars(GetInitialState(c, TRUE))
    /\ \A c \in Conns : WF_vars(SendInitialState(c))
    /\ \A c \in Conns : WF_vars(HostWrite(c, TRUE))
    /\ \A c \in Conns : WF_vars(HostPublish(c, TRUE))
    /\ \A l \in Conns : WF_vars(ListenerLoad(l))
    /\ \A l \in Conns : WF_vars(ListenerRecv(l))
    /\ \A l \in Conns : WF_vars(BcastSend(l))

SpecFanFair == SpecFan /\ FairFan

\* ------------------------------------------------------------------ claims

\* The session a frame belongs to, and whether update k was written by a
\* connection attached as host.
FrameSession(k) == conn[frames[k].c].sessionID
FromHost(k) == k = 0 \/ (k <= Len(frames) /\ conn[frames[k].c].isHost)

\* C1: for every session, the timestamp of the value stored under
\* session:<id>:state never decreases from one write to the next, in every
\* interleaving of the GET, compare and SETEX of the hosts' handlers.
C1_PersistedTimestampNeverDecreases ==
    [][\A s \in Sessions :
          (kvState[s] # NoDoc /\ kvState'[s] # NoDoc)
              => DecodeTimestamp(kvState'[s]) >= DecodeTimestamp(kvState[s])]_vars

\* C2: a stateUpdate frame from a connection attached with isHost=false has
\* no effect: its reader never reaches the write or the publish, and no
\* persisted state, no message on the bus and no frame on any send channel
\* comes from such a frame.
C2_NonHostUpdateHasNoEffect ==
    /\ \A c \in Conns :
          (conn[c] # NoConn /\ ~conn[c].isHost) => rpc[c] \notin {"su_set", "su_pub"}
    /\ \A k \in 1..Len(frames) : conn[frames[k].c].isHost
    /\ \A s \in Sessions : kvState[s] # NoDoc => FromHost(kvState[s].upd)
    /\ \A h \in Conns : \A i \in 1..Len(hbuf[h]) : FromHost(hbuf[h][i].upd)
    /\ \A c \in Conns : \A i \in 1..Len(queue[c]) :
          queue[c][i].type = "stateUpdate" => FromHost(queue[c][i].state.upd)

\* C2's case: a non-host connection sent a stateUpdate while another
\* connection was attached to the same session and the state was persisted.
C2_Witness ==
    \E c \in ignored : \E d \in Conns \ {c} :
        /\ d \in Members(SessionOf(c))
        /\ kvState[SessionOf(c)] # NoDoc
        /\ rpc[c] = "read"

\* C3: the persisted state of a session is only ever changed by a connection
\* whose client presented the session's host token.
C3_OnlyTokenHoldersWrite ==
    \A s \in Sessions :
        (kvState[s] # NoDoc /\ kvState[s].upd > 0)
            => presented[frames[kvState[s].upd].c] = HostTokenFor(s)

\* C4: for every published update and every attached client, at most one
\* stateUpdate frame for that update is enqueued on the client's channel.
C4_AtMostOneFramePerUpdate ==
    \A c \in Conns : \A k \in 1..MaxFrames : delivered[c][k] <= 1

\* Update k was published while c was attached to its session.
Owed(c, k) == k <= Len(frames) /\ frames[k].pub /\ c \in frames[k].aud

\* C5: every update published on session-updates:<id> is eventually enqueued
\* on every client that was attached to the session when it was published,
\* unless the client's channel was full (or the node went down).
C5_EveryUpdateReachesEveryMember ==
    \A c \in Conns : \A k \in 1..FanFrames :
        [](Owed(c, k) => <>(delivered[c][k] >= 1 \/ dropped[c] = 1 \/ crashed[NodeOf(c)]))

\* The next send of listener l's broadcast takes place and does what
\* broadcastState's select does: the frame is appended when there is room,
\* nothing else is touched, and the loop moves on.
BcastStep(l) ==
    /\ BcastSend(l)
    /\ lst'[l] = Advance(lst[l])
    /\ LET t == Target(l)
       IN /\ Len(queue[t]) < QueueCap => queue'[t] = Append(queue[t], StateFrame(lst[l].msg))
          /\ \A c \in Conns \ {t} : queue'[c] = queue[c]

\* C6: a broadcast never waits for a participant: in every state of a
\* broadcast, whatever the channels hold and whatever the writers do, its next
\* send can take place at once, so it goes through its whole snapshot and
\* enqueues the frame on every participant that has room.
C6_BroadcastNeverWaits ==
    \A l \in Conns :
        (lst[l].pc = "bcast" /\ Alive(l) /\ ~closed[Target(l)]) => ENABLED BcastStep(l)

\* C6's case: a broadcast went past a participant whose channel is full and
\* whose writer is stuck in a socket write, and the next participant of the
\* snapshot has the frame.
C6_Witness ==
    \E l \in Conns :
        /\ lst[l].pc = "bcast"
        /\ Len(lst[l].snap) = 2
        /\ lst[l].i = 2 /\ lst[l].j = 1
        /\ Len(queue[lst[l].snap[1]]) = QueueCap
        /\ wpc[lst[l].snap[1]] = "write"
        /\ dropped[lst[l].snap[1]] = 1
        /\ delivered[lst[l].snap[2]][lst[l].msg.upd] >= 1

\* A step that is a non-blocking send to t: of a broadcast, or of the initial
\* state.
TrySendTo(t) ==
    \/ \E l \in Conns : lst[l].pc = "bcast" /\ lst'[l] # lst[l] /\ Target(l) = t
    \/ rpc[t] = "init_send" /\ rpc'[t] = "read"

C8_StaleUpdateIgnored ==
    [][\A c \in Conns :
          (/\ rpc[c] = "su_set"
           /\ rpc'[c] # "su_set"
           /\ DecodeOk(rloc[c].doc)
           /\ frames[rloc[c].k].ts <= DecodeTimestamp(rloc[c].doc))
              => /\ kvState' = kvState
                 /\ ttl' = ttl
                 /\ hbuf' = hbuf
                 /\ rpc'[c] = "read"]_vars

\* C8's case: a host frame was ignored because its timestamp was not above
\* the persisted one, which is still there.
C8_Witness ==
    \E k \in 1..Len(frames) :
        /\ frames[k].out = "stale"
        /\ kvState[FrameSession(k)] # NoDoc
        /\ frames[k].ts <= DecodeTimestamp(kvState[FrameSession(k)])
        /\ rpc[frames[k].c] = "read"

\* C9: every accepted host write resets the time to live of both
\* session:<id> and session:<id>:state to 24 hours.
C9_AcceptedWriteRefreshesBothKeys ==
    [][\A c \in Conns :
          (/\ rpc[c] = "su_set"
           /\ rpc'[c] = "su_pub"
           /\ frames'[rloc[c].k].out = "written")
              => /\ ttl'[SessionOf(c)].state = ExpiryTicks
                 /\ ttl'[SessionOf(c)].session = ExpiryTicks]_vars

ActiveServers(reg) == {id \in ServerIds : reg[id] # NoServer /\ reg[id].Status = "active"}

\* C10: getLeastLoadedServer returns an active node whose load/capacity is
\* minimal among the active nodes, and nil exactly when no node is active.
C10_SelectionOptimal ==
    \A order \in Orders(servers) :
        LET r == GetLeastLoadedServer(servers, order)
        IN /\ (r = "") <=> (ActiveServers(servers) = {})
           /\ r # "" => /\ r \in ActiveServers(servers)
                        /\ \A id \in ActiveServers(servers) :
                              ~LoadLess(LoadOf(servers[id]), LoadOf(servers[r]))

\* The nodes a call of getLeastLoadedServer can return on registry reg.
Candidates(reg) == {GetLeastLoadedServer(reg, o) : o \in Orders(reg)} \ {""}

\* C11: at any moment, a node whose last heartbeat is older than the eviction
\* threshold (60 s) is not among the nodes the selection can return, whatever
\* the phase of the sweep's ticker.
C11_StaleNodeNotCandidate ==
    \A id \in ServerIds :
        (servers[id] # NoServer /\ now - servers[id].LastPing > EvictAfter)
            => id \notin Candidates(servers)

\* createSession ran for session id s in this step.
CreateStep(s) == s \notin issued /\ s \in issued'

\* C12: CreateSession selects an active edge node and returns its URL; with
\* no active node in the registry it answers 503 and leaves no session record.
C12_CreateSelectsEdgeOrFails ==
    [][\A s \in Sessions :
          CreateStep(s) =>
              IF ActiveServers(servers) = {}
              THEN /\ resp'.code = 503
                   /\ kvSession'[s] = "" /\ kvHost'[s] = "" /\ kvState'[s] = NoDoc
              ELSE resp'.code = 200 =>
                      /\ "streaming_url" \in DOMAIN resp'
                      /\ \E id \in ActiveServers(servers) :
                            resp'.streaming_url = ServerURL(id)]_vars

\* C13: the edge node of a session is chosen once: all the validateSession
\* calls for one session return the same streaming URL.
C13_OneUrlPerSession ==
    \A s \in Sessions : Cardinality(urls[s]) <= 1

\* C14: when the store answers, validateSession answers valid=true exactly
\* when session:<id> exists, and isHost=true exactly when moreover a token was
\* supplied that equals the one stored under session:<id>:host.
C14_ValidateAnswer ==
    [][resp'.op = "validate" =>
          LET s == resp'.sessionKey
              tok == resp'.hostToken
          IN /\ "valid" \in DOMAIN resp'
             /\ resp'.valid = (kvSession[s] # "")
             /\ resp'.valid => resp'.isHost = (tok # "" /\ tok = kvHost[s])]_vars

\* C15: the value under session:<id>:host is stored by createSession only,
\* and while the session record exists no operation (the host election of a
\* WebSocket connect, the host's disconnect, a state update, a validation)
\* overwrites or deletes it: the only token ever valid is the one issued.
C15_HostTokenSetOnce ==
    [][\A s \in Sessions :
          /\ (kvHost[s] = "" /\ kvHost'[s] # "" /\ kvSession'[s] # "") => CreateStep(s)
          /\ (kvHost[s] # "" /\ kvSession'[s] # "") => kvHost'[s] = kvHost[s]
          /\ kvSession'[s] # "" => kvHost'[s] \in {"", HostTokenFor(s)}]_vars

\* C16: register and heartbeat each create or update the entry: once the
\* control node handled either for a node id, the registry holds an entry for
\* that id whose LastPing is the handling time and, for a heartbeat, whose
\* CurrentLoad is the reported load.
C16_HeartbeatCreatesOrUpdates ==
    [][(resp' # resp /\ resp'.op \in {"register", "heartbeat"}) =>
          /\ servers'[resp'.id] # NoServer
          /\ servers'[resp'.id].LastPing = now
          /\ resp'.op = "heartbeat" => servers'[resp'.id].CurrentLoad = resp'.load]_vars

\* C17: on every participant's send channel the stateUpdate frames (the
\* initial state, then the broadcasts) come with non-decreasing
\* state.timestamp: a frame that carries a timestamp is never enqueued after
\* a frame with a higher one.
C17_FramesInTimestampOrder ==
    [][\A c \in Conns :
          (lastTs'[c] # lastTs[c] /\ lastTs'[c] # 0) => lastTs'[c] >= lastTs[c]]_vars

\* C18: on an edge node, whenever no attach and no drain is in progress, the
\* counter numClients equals the number of members summed over the sessions'
\* memberships and is never negative; every heartbeat reports that counter.
AttachSteps == {"at_make", "at_lock", "at_read", "at_write", "at_unlock", "at_count"}
DrainSteps == {"cl_close", "cl_remove"}
Quiescent(n) ==
    /\ ~crashed[n]
    /\ \A c \in Conns : NodeOf(c) = n => rpc[c] \notin AttachSteps \cup DrainSteps
MembersOn(n) == Len(clients[n]["s1"]) + Len(clients[n]["s2"])
C18_CounterIsMembership ==
    /\ [](\A n \in Nodes : /\ numClients[n] >= 0
                           /\ Quiescent(n) => numClients[n] = MembersOn(n))
    /\ [][\A n \in Nodes :
            (resp' # resp /\ resp'.op = "heartbeat" /\ resp'.id = ServerIdOf(n))
                => resp'.load = numClients[n]]_vars

\* C19: however cleanupClient (close the outbound queue, then remove the
\* client from the membership) interleaves with broadcastState working on a
\* snapshot of the membership, no send is attempted on a queue that has been
\* closed.
C19_NoSendOnClosedQueue ==
    [][\A l \in Conns : BcastSend(l) => ~closed[Target(l)]]_vars

\* C20: a connection whose writer stopped on a failed socket write is drained:
\* it is eventually out of the membership with the counter decremented, with
\* no read error and no further frame from the client needed.
WriterFailed(c) == wpc[c] = "done" /\ ~closed[c]
Drained(c) ==
    /\ rpc[c] = "gone"
    /\ \A i \in 1..Len(clients[NodeOf(c)][SessionOf(c)]) :
          clients[NodeOf(c)][SessionOf(c)][i] # c
C20_WriterFailureDrains ==
    \A c \in Conns : WriterFailed(c) ~> (Drained(c) \/ crashed[NodeOf(c)])

\* C21: on every connection at most one goroutine writes to the socket at a
\* time: the reader's heartbeatAck write never runs while writePump is in a
\* write on the same connection.
C21_OneSocketWriter ==
    \A c \in Conns : ~(rpc[c] = "hb_write" /\ wpc[c] = "write")

\* C22: on attach a connection with isHost=false, and no other, has the
\* state persisted under session:<id>:state put on its own outbound queue as
\* a stateUpdate frame: the handler of a non-host goes from the upgrade to
\* the GET, the value read is the persisted one, the send that follows is
\* always possible and appends that value as a stateUpdate frame to the
\* connection's queue (if it has room) and to no other queue; the handler of
\* a host goes straight to reading frames.
InitialFrameOf(c) == [type |-> "stateUpdate", state |-> rloc[c].doc]
C24_FailedReadKeepsConnection ==
    [][\A c \in Conns : rpc[c] = "init" => rpc'[c] \in {"init", "init_send", "read"}]_vars

\* C23: when the SETEX of a host update with a strictly newer timestamp
\* fails, the update is dropped: it is not published on the session's
\* channel, so no participant receives it (the host's connection stays open).
C23_FailedWriteNotPublished ==
    \A k \in 1..Len(frames) : frames[k].out = "writefail" => ~frames[k].pub

\* C25: a WebSocket connection that names a session id without a session
\* record is closed (code 4001) and is not added to a membership, not counted
\* in the node's load and not subscribed to the bus.
C25_UnknownSessionRejected ==
    [][/\ \A k \in CtlConns :
             (cws[k].pc = "new" /\ cws'[k].pc # "new" /\ kvSession[cws'[k].sessionKey] = "")
                => cws'[k].pc = "rejected"
       /\ \A c \in Conns :
             (rpc[c] = "new" /\ rpc'[c] # "new" /\ kvSession[conn'[c].sessionID] = "")
                => /\ clients' = clients
                   /\ numClients' = numClients
                   /\ pubsub' = pubsub
                   /\ lst' = lst]_vars

\* C26: once an edge node has accepted a host write for a session, GetSession
\* on the control node returns the state of the last accepted write; for an
\* id without a record it answers 404.
AcceptedWrite(s) ==
    \E k \in 1..Len(frames) : frames[k].out = "written" /\ FrameSession(k) = s
C26_GetSessionReturnsLastState ==
    [][\A s \in Sessions :
          GetSession(s, TRUE) =>
             /\ kvSession[s] = "" => resp'.code = 404
             /\ AcceptedWrite(s) => /\ resp'.code = 200
                                    /\ resp'.body = ToString(kvState[s])]_vars

\* C27: session creation is atomic with respect to its keys: after a
\* createSession that failed none of session:<id>, session:<id>:host and the
\* session's state exists, after one that succeeded all of them exist, and no
\* reachable state has a session record without its host token or its state.
HasState(s) == kvState[s] # NoDoc \/ kvSession[s] = CreatedState(s)
C27_CreateSessionAtomic ==
    /\ [](\A s \in Sessions : kvSession[s] # "" => (kvHost[s] # "" /\ HasState(s)))
    /\ [][\A s \in Sessions :
            CreateStep(s) =>
               IF resp'.code = 500
               THEN kvSession'[s] = "" /\ kvHost'[s] = "" /\ kvState'[s] = NoDoc
               ELSE kvSession'[s] # "" /\ kvHost'[s] # "" /\ HasState(s)']_vars

\* C28: the enqueue of the videoMetadata reply is a non-blocking try-send: the
\* reader that handles a videoMetadata frame never stays blocked on a full
\* queue, it gets back to reading the socket (from where the connection can
\* drain).
C28_MetadataReplyNeverBlocks ==
    \A c \in Conns : (rpc[c] = "vm_send") ~> (rpc[c] # "vm_send" \/ crashed[NodeOf(c)])

\* C29: on an edge node, whatever clients attached and drained, a session
\* with local members has exactly one bus subscription and one listener
\* goroutine: a further client of the session opens no further subscription
\* and starts no further listener, and a join to another session does not
\* replace the handle of an earlier session.
LocalMembers(n, s) == {c \in Conns : \E i \in 1..Len(clients[n][s]) : clients[n][s][i] = c}
SubscriptionsOn(n, s) == {h \in HandlesOf(s) : NodeOf(h) = n}
ListenersOn(n, s) ==
    {l \in Conns : NodeOf(l) = n /\ lst[l].pc # "none" /\ conn[l].sessionID = s}
C29_OneSubscriptionPerSession ==
    /\ [](\A n \in Nodes, s \in Sessions :
            LocalMembers(n, s) # {} => /\ Cardinality(SubscriptionsOn(n, s)) = 1
                                       /\ Cardinality(ListenersOn(n, s)) = 1)
    /\ [][\A n \in Nodes :
            pubsub[n] # 0 => conn'[pubsub'[n]].sessionID = conn[pubsub[n]].sessionID]_vars

\* C30: when clients attach concurrently to a session the node has not seen,
\* the lazily created session mutex is one object for all of them: the entry
\* in client_lock is never replaced, at most one handler is inside the append
\* to the session's membership, and a client whose append is done is in the
\* membership (no lost update).
Appending(n, s) ==
    {c \in Conns : NodeOf(c) = n /\ rpc[c] \in {"at_read", "at_write"} /\ conn[c].sessionID = s}
Attached(c) == rpc[c] \in {"at_unlock", "at_count", "init", "init_send", "read"}
C30_OneMutexPerSession ==
    /\ [](\A n \in Nodes, s \in Sessions : Cardinality(Appending(n, s)) <= 1)
    /\ [](\A c \in Conns :
            (Attached(c) /\ Alive(c)) => c \in LocalMembers(NodeOf(c), SessionOf(c)))
    /\ [][\A n \in Nodes, s \in Sessions :
            client_lock[n][s] # 0 => client_lock'[n][s] = client_lock[n][s]]_vars

\* C31: the selection is deterministic: two calls of getLeastLoadedServer on
\* the same registry content return the same node, also when several active
\* nodes share the lowest load.
C31_SelectionDeterministic ==
    \A o1 \in Orders(servers), o2 \in Orders(servers) :
        GetLeastLoadedServer(servers, o1) = GetLeastLoadedServer(servers, o2)

\* C37: getLeastLoadedServer never returns a node whose load is greater than
\* or equal to its (positive) capacity, even when it is the only active node.
C37_FullNodeNeverSelected ==
    \A order \in Orders(servers) :
        LET r == GetLeastLoadedServer(servers, order)
        IN r # "" => /\ servers[r].Status = "active"
                     /\ servers[r].CurrentLoad < servers[r].Capacity

\* C37 witness: the only active node of the registry is at or above its
\* capacity and the selection returns no node.
C37_Witness ==
    /\ \E id \in ServerIds :
          /\ ActiveServers(servers) = {id}
          /\ servers[id].Capacity > 0
          /\ servers[id].CurrentLoad >= servers[id].Capacity
    /\ selected = ""
    /\ \A order \in Orders(servers) : GetLeastLoadedServer(servers, order) = ""

\* C32: on an edge node the map clients has an entry only for sessions with at
\* least one attached client: once cleanupClient has drained the last
\* ClientConn of a session, the session's key is gone from the map.
C32_EmptyEntryDeleted ==
    \A n \in Nodes : \A s \in Sessions :
        (inMap[n][s] /\ MutexFree(n, s)) => Len(clients[n][s]) > 0

\* C33: no task of an edge node acquires a mutex while it holds another one,
\* and broadcastState has released the session mutex before its first
\* enqueue: a handler that goes on to the counter mutex (numClients_lock) has
\* no session mutex locked, and neither has a listener that is enqueueing.
HeldBy(c) == {m \in Conns : locked[m] = c}
C33_NoNestedMutex ==
    /\ \A c \in Conns : (rpc[c] = "at_count" /\ Alive(c)) => HeldBy(c) = {}
    /\ \A l \in Conns : (lst[l].pc = "bcast" /\ Alive(l)) => HeldBy(l) = {}

\* C34: a sweep of cleanupInactiveServers removes exactly the registry
\* entries with now - lastPing > 60 s and leaves every other entry as it was;
\* an entry whose last heartbeat was handled at most one heartbeat interval
\* (30 s) ago is never removed.
SweepStep == nextSweep' # nextSweep
C34_SweepEvictsExactlyStale ==
    [][SweepStep =>
          \A id \in ServerIds :
             /\ (servers[id] # NoServer /\ now - servers[id].LastPing > EvictAfter)
                   => servers'[id] = NoServer
             /\ (servers[id] # NoServer /\ now - servers[id].LastPing <= EvictAfter)
                   => servers'[id] = servers[id]
             /\ (servers[id] # NoServer /\ now - servers[id].LastPing <= HeartbeatEvery)
                   => servers'[id] # NoServer
             /\ servers[id] = NoServer => servers'[id] = NoServer]_vars

\* C34 witness: a sweep has run; it removed the entry of a node that a
\* selection had returned before, and kept the entry of a node whose heartbeat
\* it found at most one interval old.
C34_Witness ==
    /\ nextSweep > SweepEvery
    /\ now = nextSweep - SweepEvery
    /\ \E a \in ServerIds, b \in ServerIds :
          /\ servers[a] = NoServer
          /\ selected = a
          /\ servers[b] # NoServer
          /\ servers[b].LastPing < now
          /\ now - servers[b].LastPing <= HeartbeatEvery

\* C35: the PlaybackState CreateSession persists carries the creation time as
\* its timestamp, so a host stateUpdate stamped earlier than the session's
\* creation instant is never written to session:<id>:state.
C35_UpdateOlderThanCreationRejected ==
    /\ \A s \in Sessions :
          kvState[s] = InitialDoc => DecodeTimestamp(kvState[s]) = createdAt[s]
    /\ \A k \in 1..Len(frames) :
          frames[k].out = "written" => frames[k].ts >= createdAt[SessionOf(frames[k].c)]

\* C38: a host stateUpdate whose GET found no value under session:<id>:state
\* (the session was never created, or the key expired) is dropped: the
\* handler writes no record, publishes nothing and goes back to reading,
\* whatever the timestamp of the frame.
FoundNoState(c) == rpc[c] = "su_set" /\ rloc[c].doc = NoDoc
C38_UpdateWithoutStateDropped ==
    /\ [][\A c \in Conns :
            (FoundNoState(c) /\ rpc'[c] # "su_set")
                => /\ rpc'[c] = "read"
                   /\ kvState' = kvState
                   /\ ttl' = ttl
                   /\ hbuf' = hbuf
                   /\ frames'[rloc[c].k].out = "nokey"]_vars
    /\ [](\A k \in 1..Len(frames) :
            frames[k].out = "nokey"
                => /\ ~frames[k].pub
                   /\ \A s \in Sessions : kvState[s] # NoDoc => kvState[s].upd # k)

\* C38 witness: a host's frame with the highest timestamp was dropped for a
\* session that has no state value, and the session still has none.
C38_Witness ==
    \E k \in 1..Len(frames) :
        /\ frames[k].out = "nokey"
        /\ frames[k].ts = MaxTs
        /\ rpc[frames[k].c] = "read"
        /\ kvState[SessionOf(frames[k].c)] = NoDoc

\* C36: eventual convergence.  Once no host update is in progress, every
\* published message has been delivered and no queue dropped a frame, the
\* last stamped stateUpdate every attached participant of a session got
\* carries the timestamp of the value persisted under session:<id>:state,
\* also after two host-flagged connections wrote concurrently.
Settled ==
    /\ \A c \in Conns : rpc[c] \in {"new", "read", "gone"}
    /\ \A l \in Conns :
          \/ lst[l].pc = IdleListener.pc
          \/ lst[l].pc = "recv" /\ hbuf[lst[l].h] = <<>>
    /\ \A k \in 1..Len(frames) :
          frames[k].pub => \A c \in frames[k].aud : delivered[c][k] >= 1
    /\ \A c \in Conns : dropped[c] = 0
    /\ \A n \in Nodes : ~crashed[n]
C36_EventualConvergence ==
    Settled =>
        \A s \in Sessions : \A c \in Members(s) :
            (rpc[c] = "read" /\ lastTs[c] # 0)
                => lastTs[c] = DecodeTimestamp(kvState[s])

\* C39: after cleanupClient has drained a connection, the connection's
\* writePump goroutine eventually terminates, also when it was blocked in a
\* write to a slow client; the writers still running belong to connections
\* that are attached, being drained, or drained with the writer on its way out.
LiveWriter(c) == wpc[c] \in {"wait", "write"}
====
